---- MODULE Spec2Model ----
(***************************************************************************)
(* Model of morph_kgc/data_source/data_file.py: get_file_data and the      *)
(* readers it dispatches to.  One call of get_file_data is one action; the *)
(* call is made NumRuns times on the same mapping rule and references, and *)
(* every outcome is kept in `results`.                                      *)
(*                                                                         *)
(* Data representation.  A reference (and a column name) is the sequence   *)
(* of the segments of its path: "a" is <<"a">>, "c.n" is <<"c","n">>.       *)
(* The readers never look inside a text value, so a text value is the      *)
(* identity of the node it comes from: record, path, position.  A cell of  *)
(* a data frame is a list (a Python list), a scalar or NaN.  Every row      *)
(* carries `rec`, the position of the record it was produced from.         *)
(***************************************************************************)
EXTENDS Integers, Sequences, FiniteSets, TLC

VARIABLES mapping_rule, references, results

vars == <<mapping_rule, references, results>>

\* ----------------------------------------------------------------- bounds
MaxRecords == 2   \* records matched by the iterator / rows of a flat file
MaxVals == 2      \* values one reference has in one record
NumRuns == 2      \* calls of get_file_data on the same input

\* ---------------------------------------------------------------- helpers
Range(s) == {s[i] : i \in DOMAIN s}

Perms(S) == {s \in [1..Cardinality(S) -> S] : Range(s) = S}

\* every duplicate-free ordering of every non-empty subset of S
Orderings(S) == UNION {Perms(T) : T \in (SUBSET S) \ {{}}}

SeqsUpTo(S, n) == UNION {[1..k -> S] : k \in 0..n}

IndexOf(s, x) == CHOOSE i \in DOMAIN s : s[i] = x

RECURSIVE Flatten(_)
Flatten(ss) == IF ss = <<>> THEN <<>> ELSE Head(ss) \o Flatten(Tail(ss))

RECURSIVE Dedup(_)
Dedup(s) ==
    IF s = <<>> THEN <<>>
    ELSE LET d == Dedup(SubSeq(s, 1, Len(s) - 1))
             x == s[Len(s)]
         IN IF x \in Range(d) THEN d ELSE Append(d, x)

RECURSIVE Product(_)
Product(s) == IF s = <<>> THEN 1 ELSE Head(s) * Product(Tail(s))

\* ------------------------------------------------------------ cell values
Token(r, path, j) == [rec |-> r, ref |-> path, pos |-> j]

Texts(r, path, k) == [j \in 1..k |-> Token(r, path, j)]

ListCell(items) == [tag |-> "list", val |-> items]
Scalar(t) == [tag |-> "scalar", val |-> <<t>>]
NaN == [tag |-> "nan", val |-> <<>>]
ObjCell(items) == [tag |-> "obj", val |-> items]

isna(cell) == cell.tag = "nan"

EmptyTable == [columns |-> <<>>, rows |-> <<>>]

\* ------------------------------------------------------- pandas operations
\* pd.DataFrame.from_records(data, columns=columns): one row per item of data,
\* the item's i-th entry under the i-th column; the entries are Python lists.
from_records(data, columns) ==
    [columns |-> columns,
     rows |-> [r \in 1..Len(data) |->
                 [rec |-> r,
                  cells |-> [c \in Range(columns) |->
                               ListCell(data[r][IndexOf(columns, c)])]]]]

\* list(set(references).difference(set(df.columns))) as a set: the order of the
\* list is the iteration order of a Python set of strings, which the action
\* that calls the reader chooses.
missing_references(refs, df) == Range(refs) \ Range(df.columns)

\* set_nan_columns without the assignment
keep_columns(df, missing) == df

\* df[missing] = np.nan: one new all-NaN column per name, in the order of the
\* list; nothing happens for an empty list.
set_nan_columns(df, missing) ==
    [columns |-> df.columns \o missing,
     rows |-> [r \in DOMAIN df.rows |->
                 [rec |-> df.rows[r].rec,
                  cells |-> [c \in Range(df.columns) \cup Range(missing) |->
                               IF c \in Range(df.columns)
                               THEN df.rows[r].cells[c] ELSE NaN]]]]

\* dropna taking an empty list for a missing value
dropna_empty_lists(df) ==
    [columns |-> df.columns,
     rows |-> SelectSeq(df.rows,
                LAMBDA row : \A c \in Range(df.columns) :
                    ~isna(row.cells[c]) /\ row.cells[c] # ListCell(<<>>))]

\* df.dropna(axis=0, how='any'): a row goes when one of its cells is NaN.  A
\* list, empty or not, is not NaN.
dropna(df) ==
    [columns |-> df.columns,
     rows |-> SelectSeq(df.rows,
                LAMBDA row : \A c \in Range(df.columns) : ~isna(row.cells[c]))]

explode_row(row, column) ==
    LET cell == row.cells[column]
        with(v) == [rec |-> row.rec, cells |-> [row.cells EXCEPT ![column] = v]]
    IN IF cell.tag = "list"
       THEN IF cell.val = <<>>
            THEN <<with(NaN)>>
            ELSE [j \in 1..Len(cell.val) |-> with(Scalar(cell.val[j]))]
       ELSE <<row>>

\* df.explode(column): every list cell of the column becomes one row per item
\* (an empty list one row with NaN), in place, the other cells replicated.
explode(df, column) ==
    [columns |-> df.columns,
     rows |-> Flatten([r \in DOMAIN df.rows |-> explode_row(df.rows[r], column)])]

\* cudf.from_pandas(df): the same columns in the same order, the same rows.
from_pandas(df) == [columns |-> df.columns, rows |-> df.rows]

\* -------------------------------------------------------------- _read_xml
XmlRefs == {<<"a">>, <<"b">>}

\* An XML record: how many child elements each requested path matches under
\* it.  Children no reference names are never looked at and are left out.
XmlRecords(refs) == [Range(refs) -> 0..MaxVals]

\* the records the iterator matches, in document order
XmlDocuments(refs) == SeqsUpTo(XmlRecords(refs), MaxRecords)

\* [[[r.text for r in e.findall(reference)] for reference in references]
\*  for e in xpath_result]
xpath_texts(doc, refs) ==
    [r \in 1..Len(doc) |->
       [i \in 1..Len(refs) |-> Texts(r, refs[i], doc[r][refs[i]])]]

\* explode_all that stops after the first reference
explode_first(df, refs) == IF refs = <<>> THEN df ELSE explode(df, Head(refs))

\* explode_all that takes the references from the last to the first
RECURSIVE explode_all_reversed(_, _)
explode_all_reversed(df, refs) ==
    IF refs = <<>> THEN df
    ELSE explode(explode_all_reversed(df, Tail(refs)), Head(refs))

\* for reference in references: xml_df = xml_df.explode(reference)
RECURSIVE explode_all(_, _)
explode_all(df, refs) ==
    IF refs = <<>> THEN df
    ELSE explode_all(explode(df, Head(refs)), Tail(refs))

xml_records_frame(doc, refs) == from_records(xpath_texts(doc, refs), refs)

\* order: the list made of the set of missing references
_read_xml(doc, refs, order) ==
    LET xml_df == xml_records_frame(doc, refs)
        padded == set_nan_columns(xml_df, order)
        kept == dropna(padded)
    IN [raised |-> "none", table |-> from_pandas(explode_all(kept, refs))]

\* ------------------------------------------------------------- _read_json
TopKeys == {"a", "c"}
SubKeys == {"n", "m"}
SubKeyOrder == <<"n", "m">>

JsonRefs == {<<"a">>, <<"c", "n">>}

JVal(kind, len, keys) == [kind |-> kind, len |-> len, keys |-> keys]

\* the value of key "a": no such key, null, a string, or an array of strings
\* (empty, or of MaxVals items)
AValues ==
    {JVal("absent", 0, {}), JVal("null", 0, {}), JVal("str", 0, {})}
    \cup {JVal("list", k, {}) : k \in {0, MaxVals}}

\* the value of key "c": no such key, or an object with some of the sub-keys
CValues == {JVal("absent", 0, {})} \cup {JVal("obj", 0, S) : S \in (SUBSET SubKeys) \ {{}}}

\* the values of a key: a key that is the top level of no reference is not
\* asked for and is left out of the record
ValuesOf(k, vals, refs) ==
    IF \E i \in DOMAIN refs : Head(refs[i]) = k THEN vals ELSE {JVal("absent", 0, {})}

JsonRecords(refs) ==
    {[a |-> x, c |-> y] : x \in ValuesOf("a", AValues, refs), y \in ValuesOf("c", CValues, refs)}

\* the records the iterator matches, in document order
JsonDocuments(refs) == SeqsUpTo(JsonRecords(refs), MaxRecords)

\* reference.split('.')[0]
top_level(reference) == Head(reference)

\* obj.get(k) as a Python value; None for a key that is not there and for null
py_value(r, obj, k) ==
    LET v == obj[k]
    IN CASE v.kind = "str" -> Scalar(Token(r, <<k>>, 1))
         [] v.kind = "list" -> ListCell(Texts(r, <<k>>, v.len))
         [] v.kind = "obj" ->
              ObjCell([i \in 1..Len(SelectSeq(SubKeyOrder, LAMBDA s : s \in v.keys)) |->
                         Token(r, <<k, SelectSeq(SubKeyOrder, LAMBDA s : s \in v.keys)[i]>>, 1)])
         [] OTHER -> NaN

\* JSONPath(iterator + '.(k1,k2,...)').parse(json_data): one dict per record
\* the iterator matches, with the listed keys in the order listed (a key
\* listed twice is one key) and None for a key the record does not have.
jsonpath_parse(doc, refs) ==
    LET keys == Dedup([i \in 1..Len(refs) |-> top_level(refs[i])])
    IN [r \in 1..Len(doc) |->
          [rec |-> r, keys |-> keys,
           vals |-> [k \in Range(keys) |-> py_value(r, doc[r], k)]]]

\* One step of the sequential cross product: a single value stays, a sequence
\* of k values multiplies the accumulator by k, no value gives null.
expand_key(acc, k) ==
    Flatten([i \in 1..Len(acc) |->
        LET d == acc[i]
            cell == d.vals[k]
            with(v) == [rec |-> d.rec, keys |-> d.keys,
                        vals |-> [d.vals EXCEPT ![k] = v]]
        IN IF cell.tag = "list"
           THEN IF cell.val = <<>>
                THEN <<with(NaN)>>
                ELSE [j \in 1..Len(cell.val) |-> with(Scalar(cell.val[j]))]
           ELSE <<d>>])

RECURSIVE expand_keys(_, _)
expand_keys(acc, keys) ==
    IF keys = <<>> THEN acc
    ELSE expand_keys(expand_key(acc, Head(keys)), Tail(keys))

\* utils.normalize_hierarchical_data: the rows of every dict, in order
normalize_hierarchical_data(dicts) ==
    Flatten([i \in 1..Len(dicts) |-> expand_keys(<<dicts[i]>>, dicts[i].keys)])

\* [o for o in ... if None not in o.values()]
remove_nulls(dicts) ==
    SelectSeq(dicts, LAMBDA d : \A k \in Range(d.keys) : ~isna(d.vals[k]))

\* the columns pd.json_normalize gives one dict: the keys whose value is not a
\* dict, in order, then the keys of the nested dicts as parent.child
flat_columns(d) ==
    LET plain == SelectSeq(d.keys, LAMBDA k : d.vals[k].tag # "obj")
        nested == SelectSeq(d.keys, LAMBDA k : d.vals[k].tag = "obj")
    IN [i \in 1..Len(plain) |-> <<plain[i]>>]
       \o Flatten([i \in 1..Len(nested) |->
                     [j \in 1..Len(d.vals[nested[i]].val) |->
                        d.vals[nested[i]].val[j].ref]])

flat_cell(d, c) ==
    IF c \notin Range(flat_columns(d)) THEN NaN
    ELSE IF Len(c) = 1 THEN d.vals[c[1]]
    ELSE LET items == d.vals[c[1]].val
         IN Scalar(items[CHOOSE j \in DOMAIN items : items[j].ref = c])

\* pd.json_normalize(dicts): the columns in the order they are first met, NaN
\* where a dict lacks the column; no dict, no column.
json_normalize(dicts) ==
    LET columns == Dedup(Flatten([i \in 1..Len(dicts) |-> flat_columns(dicts[i])]))
    IN [columns |-> columns,
        rows |-> [i \in 1..Len(dicts) |->
                    [rec |-> dicts[i].rec,
                     cells |-> [c \in Range(columns) |-> flat_cell(dicts[i], c)]]]]

json_records_frame(doc, refs) ==
    json_normalize(remove_nulls(normalize_hierarchical_data(jsonpath_parse(doc, refs))))

\* order: the list made of the set of missing references
_read_json(doc, refs, order) ==
    LET json_df == json_records_frame(doc, refs)
    IN [raised |-> "none", table |-> from_pandas(set_nan_columns(json_df, order))]

\* ------------------------------------------------------------ flat readers
FlatColumns == {<<"a">>, <<"b">>}

\* A flat file: its columns in file order and its number of rows.
FlatFiles == {[columns |-> cs, nrows |-> n] : cs \in Orderings(FlatColumns), n \in 0..MaxRecords}

file_rows(file, columns) ==
    [r \in 1..file.nrows |->
       [rec |-> r, cells |-> [c \in Range(columns) |-> Scalar(Token(r, c, 1))]]]

\* a library reader given usecols=: the listed columns in file order; it raises
\* when a listed column is not in the file
read_usecols(file, usecols) ==
    IF ~(Range(usecols) \subseteq Range(file.columns))
    THEN [raised |-> "LibraryError", table |-> EmptyTable]
    ELSE LET columns == SelectSeq(file.columns, LAMBDA c : c \in Range(usecols))
         IN [raised |-> "none",
             table |-> [columns |-> columns, rows |-> file_rows(file, columns)]]

\* a library reader given columns=: the listed columns in the order listed; it
\* raises when a listed column is not in the file
read_columns(file, columns) ==
    IF ~(Range(columns) \subseteq Range(file.columns))
    THEN [raised |-> "LibraryError", table |-> EmptyTable]
    ELSE [raised |-> "none",
          table |-> [columns |-> columns, rows |-> file_rows(file, columns)]]

\* a library reader given no column restriction: the whole file
read_whole(file) ==
    [raised |-> "none",
     table |-> [columns |-> file.columns, rows |-> file_rows(file, file.columns)]]

converted(out) ==
    IF out.raised # "none" THEN out
    ELSE [raised |-> "none", table |-> from_pandas(out.table)]

_read_csv(file, refs) == read_usecols(file, refs)
_read_parquet(file, refs) == read_columns(file, refs)
_read_feather(file, refs) == read_columns(file, refs)
_read_orc(file, refs) == read_columns(file, refs)
_read_stata(file, refs) == converted(read_columns(file, refs))
_read_sas(file, refs) == converted(read_whole(file))
_read_spss(file, refs) == converted(read_usecols(file, refs))
_read_excel(file, refs) == converted(read_usecols(file, refs))
_read_ods(file, refs) == converted(read_usecols(file, refs))

\* ---------------------------------------------------------- get_file_data
CSV == "CSV"
TSV == "TSV"
EXCEL == {"XLS", "XLSX"}
ODS == {"ODS"}
PARQUET == "PARQUET"
FEATHER == {"FEATHER"}
ORC == "ORC"
STATA == "DTA"
SAS == {"XPT", "SAS7BDAT"}
SPSS == "SAV"
JSON == "JSON"
XML == "XML"

FlatTypes == {CSV, TSV, PARQUET, ORC, STATA, SPSS} \cup EXCEL \cup ODS \cup FEATHER \cup SAS
UnknownTypes == {"RDB", "YAML"}

\* reader_of with the SAS test sending the file to the SPSS reader
reader_of_sas_as_spss(file_source_type) ==
    IF file_source_type \in {CSV, TSV} THEN "_read_csv"
    ELSE IF file_source_type \in EXCEL THEN "_read_excel"
    ELSE IF file_source_type \in ODS THEN "_read_ods"
    ELSE IF file_source_type = PARQUET THEN "_read_parquet"
    ELSE IF file_source_type \in FEATHER THEN "_read_feather"
    ELSE IF file_source_type = ORC THEN "_read_orc"
    ELSE IF file_source_type = STATA THEN "_read_stata"
    ELSE IF file_source_type \in SAS \/ file_source_type = SPSS THEN "_read_spss"
    ELSE IF file_source_type = JSON THEN "_read_json"
    ELSE IF file_source_type = XML THEN "_read_xml"
    ELSE "none"

\* the if/elif chain: the reader of the first branch whose test holds
reader_of(file_source_type) ==
    IF file_source_type \in {CSV, TSV} THEN "_read_csv"
    ELSE IF file_source_type \in EXCEL THEN "_read_excel"
    ELSE IF file_source_type \in ODS THEN "_read_ods"
    ELSE IF file_source_type = PARQUET THEN "_read_parquet"
    ELSE IF file_source_type \in FEATHER THEN "_read_feather"
    ELSE IF file_source_type = ORC THEN "_read_orc"
    ELSE IF file_source_type = STATA THEN "_read_stata"
    ELSE IF file_source_type \in SAS THEN "_read_sas"
    ELSE IF file_source_type = SPSS THEN "_read_spss"
    ELSE IF file_source_type = JSON THEN "_read_json"
    ELSE IF file_source_type = XML THEN "_read_xml"
    ELSE "none"

run_reader(reader, rule, refs, order) ==
    LET src == rule.data_source
    IN CASE reader = "_read_csv" -> _read_csv(src, refs)
         [] reader = "_read_excel" -> _read_excel(src, refs)
         [] reader = "_read_ods" -> _read_ods(src, refs)
         [] reader = "_read_parquet" -> _read_parquet(src, refs)
         [] reader = "_read_feather" -> _read_feather(src, refs)
         [] reader = "_read_orc" -> _read_orc(src, refs)
         [] reader = "_read_stata" -> _read_stata(src, refs)
         [] reader = "_read_sas" -> _read_sas(src, refs)
         [] reader = "_read_spss" -> _read_spss(src, refs)
         [] reader = "_read_json" -> _read_json(src, refs, order)
         [] reader = "_read_xml" -> _read_xml(src, refs, order)

\* The outcome of one call: the readers invoked, what was raised, the table.
get_file_data(rule, refs, order) ==
    LET reader == reader_of(rule.source_type)
    IN IF reader = "none"
       THEN [invoked |-> <<>>, raised |-> "ValueError", table |-> EmptyTable]
       ELSE LET out == run_reader(reader, rule, refs, order)
            IN [invoked |-> <<reader>>, raised |-> out.raised, table |-> out.table]

\* the orders list(set(references).difference(set(df.columns))) can have
missing_orders(rule, refs) ==
    CASE rule.source_type = JSON ->
           Perms(missing_references(refs, json_records_frame(rule.data_source, refs)))
      [] rule.source_type = XML ->
           Perms(missing_references(refs, xml_records_frame(rule.data_source, refs)))
      [] OTHER -> {<<>>}

\* ------------------------------------------------------------ state machine
Rule(st, src) == [source_type |-> st, data_source |-> src]

Init ==
    /\ results = <<>>
    /\ \/ /\ references \in Orderings(XmlRefs)
          /\ mapping_rule \in {Rule(XML, d) : d \in XmlDocuments(references)}
       \/ /\ references \in Orderings(JsonRefs)
          /\ mapping_rule \in {Rule(JSON, d) : d \in JsonDocuments(references)}
       \/ /\ mapping_rule \in {Rule(st, f) : st \in FlatTypes \cup UnknownTypes, f \in FlatFiles}
          /\ references \in Orderings(FlatColumns)

\* get_file_data may be called again on the same input
Pending == Len(results) < NumRuns

\* the outcome of the call joins the outcomes so far; the input is not touched
Return(outcome) ==
    /\ results' = Append(results, outcome)
    /\ UNCHANGED <<mapping_rule, references>>

ReadCsv ==
    /\ Pending
    /\ reader_of(mapping_rule.source_type) = "_read_csv"
    /\ Return(get_file_data(mapping_rule, references, <<>>))

ReadExcel ==
    /\ Pending
    /\ reader_of(mapping_rule.source_type) = "_read_excel"
    /\ Return(get_file_data(mapping_rule, references, <<>>))

ReadOds ==
    /\ Pending
    /\ reader_of(mapping_rule.source_type) = "_read_ods"
    /\ Return(get_file_data(mapping_rule, references, <<>>))

ReadParquet ==
    /\ Pending
    /\ reader_of(mapping_rule.source_type) = "_read_parquet"
    /\ Return(get_file_data(mapping_rule, references, <<>>))

ReadFeather ==
    /\ Pending
    /\ reader_of(mapping_rule.source_type) = "_read_feather"
    /\ Return(get_file_data(mapping_rule, references, <<>>))

ReadOrc ==
    /\ Pending
    /\ reader_of(mapping_rule.source_type) = "_read_orc"
    /\ Return(get_file_data(mapping_rule, references, <<>>))

ReadStata ==
    /\ Pending
    /\ reader_of(mapping_rule.source_type) = "_read_stata"
    /\ Return(get_file_data(mapping_rule, references, <<>>))

ReadSas ==
    /\ Pending
    /\ reader_of(mapping_rule.source_type) = "_read_sas"
    /\ Return(get_file_data(mapping_rule, references, <<>>))

ReadSpss ==
    /\ Pending
    /\ reader_of(mapping_rule.source_type) = "_read_spss"
    /\ Return(get_file_data(mapping_rule, references, <<>>))

ReadJson ==
    /\ Pending
    /\ reader_of(mapping_rule.source_type) = "_read_json"
    /\ \E order \in missing_orders(mapping_rule, references) :
         Return(get_file_data(mapping_rule, references, order))

ReadXml ==
    /\ Pending
    /\ reader_of(mapping_rule.source_type) = "_read_xml"
    /\ \E order \in missing_orders(mapping_rule, references) :
         Return(get_file_data(mapping_rule, references, order))

InvalidSourceType ==
    /\ Pending
    /\ reader_of(mapping_rule.source_type) = "none"
    /\ Return(get_file_data(mapping_rule, references, <<>>))

Next ==
    \/ ReadCsv \/ ReadExcel \/ ReadOds \/ ReadParquet \/ ReadFeather \/ ReadOrc
    \/ ReadStata \/ ReadSas \/ ReadSpss \/ ReadJson \/ ReadXml \/ InvalidSourceType

Spec == Init /\ [][Next]_vars

\* ------------------------------------------------------------------ claims
IsXml == mapping_rule.source_type = XML
IsJson == mapping_rule.source_type = JSON
IsFlat == mapping_rule.source_type \in FlatTypes
Document == mapping_rule.data_source
\* The call that has just returned.  Every call is the latest one in the state
\* it returns to, so an invariant about the latest call is about every call.
Latest == {Len(results)} \ {0}
Returned(i) == i \in DOMAIN results /\ results[i].raised = "none"
TableOf(i) == results[i].table

RowsOfRecord(t, r) == SelectSeq(t.rows, LAMBDA row : row.rec = r)

\* how many nodes a reference matches under the r-th XML record
XmlCount(r, ref) == Document[r][ref]

\* a reference that matches no node under the r-th JSON record
JsonAbsent(r, ref) ==
    LET v == Document[r][ref[1]]
    IN \/ v.kind = "absent"
       \/ Len(ref) = 2 /\ ref[2] \notin v.keys

\* the rows the r-th XML record is to give:
\* every choice of one value per reference (NaN for a reference without value)
Combinations(r, refs) ==
    {[ref \in Range(refs) |->
        IF XmlCount(r, ref) = 0 THEN NaN ELSE Scalar(Token(r, ref, p[ref]))] :
     p \in {q \in [Range(refs) -> 1..MaxVals] :
              \A ref \in Range(refs) :
                  q[ref] <= XmlCount(r, ref) \/ (XmlCount(r, ref) = 0 /\ q[ref] = 1)}}

\* C1: the table of a hierarchical reader has the requested references as its
\* column sequence: none missing, none added, in the caller's order.
C1_ColumnsAreReferences ==
    \A i \in Latest :
        (IsXml \/ IsJson) /\ Returned(i) => TableOf(i).columns = references

\* C2: an XML record whose references have k1, ..., kn values (all at least
\* one) gives exactly k1 * ... * kn rows, one per combination of one value per
\* reference.
C2_CrossProduct ==
    \A i \in Latest :
        IsXml /\ Returned(i) =>
            \A r \in DOMAIN Document :
                (\A ref \in Range(references) : XmlCount(r, ref) >= 1) =>
                    LET rows == RowsOfRecord(TableOf(i), r)
                    IN /\ Len(rows) =
                            Product([j \in 1..Len(references) |-> XmlCount(r, references[j])])
                       /\ {rows[j].cells : j \in DOMAIN rows} = Combinations(r, references)
                       /\ Cardinality(Combinations(r, references)) = Len(rows)

C2_Witness ==
    /\ IsXml /\ Returned(1) /\ Len(references) = 2
    /\ \E r \in DOMAIN Document :
          /\ \A ref \in Range(references) : XmlCount(r, ref) = 2
          /\ Len(RowsOfRecord(TableOf(1), r)) = 4

\* C3: the reader that drops incomplete records (_read_json) gives no row for
\* a record in which a requested reference matches nothing.
C3_DropIncomplete ==
    \A i \in Latest :
        IsJson /\ Returned(i) =>
            \A r \in DOMAIN Document :
                (\E ref \in Range(references) : JsonAbsent(r, ref)) =>
                    RowsOfRecord(TableOf(i), r) = <<>>

\* C4: the reader that keeps nulls (_read_xml) never drops a record for a
\* reference R that matches nothing: the record gives the cross product of its
\* other references' values, every row with null at R.
C4_KeepNull ==
    \A i \in Latest :
        IsXml /\ Returned(i) =>
            \A r \in DOMAIN Document : \A R \in Range(references) :
                XmlCount(r, R) = 0 =>
                    LET rows == RowsOfRecord(TableOf(i), r)
                    IN /\ Len(rows) =
                            Product([j \in 1..Len(references) |->
                                       IF XmlCount(r, references[j]) = 0 THEN 1
                                       ELSE XmlCount(r, references[j])])
                       /\ Len(rows) >= 1
                       /\ \A j \in DOMAIN rows : isna(rows[j].cells[R])
                       /\ {rows[j].cells : j \in DOMAIN rows} = Combinations(r, references)

C4_Witness ==
    /\ IsXml /\ Returned(1) /\ Len(references) = 2
    /\ \E r \in DOMAIN Document :
          /\ XmlCount(r, references[1]) = 0
          /\ XmlCount(r, references[2]) = 2
          /\ Len(RowsOfRecord(TableOf(1), r)) = 2

\* the place of a row in the expansion: its record, then for each reference in
\* the requested order the position of its value (0 for null)
RowKey(row) ==
    <<row.rec>> \o [j \in 1..Len(references) |->
                      IF row.cells[references[j]].tag = "scalar"
                      THEN row.cells[references[j]].val[1].pos ELSE 0]

RECURSIVE LexLess(_, _)
LexLess(s, t) ==
    /\ s # <<>> /\ t # <<>>
    /\ \/ Head(s) < Head(t)
       \/ Head(s) = Head(t) /\ LexLess(Tail(s), Tail(t))

\* C5: rows keep document order: the rows of an earlier record come before
\* those of a later one, and inside a record the rows are in lexicographic
\* order of value position, the earlier reference the more significant.
\* (LexLess is a strict order, so it is stated of each row and the next.)
C5_RowOrder ==
    \A i \in Latest :
        (IsXml \/ IsJson) /\ Returned(i) =>
            \A j \in DOMAIN TableOf(i).rows :
                j + 1 \in DOMAIN TableOf(i).rows =>
                    LexLess(RowKey(TableOf(i).rows[j]), RowKey(TableOf(i).rows[j + 1]))

C5_Witness ==
    /\ IsXml /\ Returned(1) /\ Len(references) = 2 /\ Len(Document) = 2
    /\ \A r \in DOMAIN Document : \A ref \in Range(references) : XmlCount(r, ref) = 2
    /\ Len(TableOf(1).rows) = 8

\* a reference that matches nothing in any record of the document
GloballyAbsent(R) ==
    \A r \in DOMAIN Document :
        IF IsXml THEN XmlCount(r, R) = 0 ELSE JsonAbsent(r, R)

\* C6: a reference R that matches nothing in any record still gives a table
\* (nothing is raised) with a column R, and every row has null at R.
C6_GlobalAbsence ==
    \A i \in Latest :
        (IsXml \/ IsJson) =>
            /\ Returned(i)
            /\ \A R \in Range(references) :
                  GloballyAbsent(R) =>
                      /\ R \in Range(TableOf(i).columns)
                      /\ \A j \in DOMAIN TableOf(i).rows : isna(TableOf(i).rows[j].cells[R])

C6_Witness ==
    /\ IsJson /\ Returned(1)
    /\ TableOf(1).rows # <<>>
    /\ \E R \in Range(references) : GloballyAbsent(R)

\* C7: when the iterator matches no record the reader does not fail and gives
\* a table without rows whose columns are the requested references.
C7_EmptyMatch ==
    \A i \in Latest :
        (IsXml \/ IsJson) /\ Document = <<>> =>
            /\ Returned(i)
            /\ TableOf(i).rows = <<>>
            /\ Range(TableOf(i).columns) = Range(references)
            /\ Len(TableOf(i).columns) = Len(references)

C7_Witness ==
    /\ IsJson /\ Document = <<>> /\ Len(references) = 2 /\ Returned(1)

\* C8: two runs of the same reader on the same document, iterator and
\* references return identical tables.
C8_Deterministic ==
    (IsXml \/ IsJson) /\ Len(results) >= 2 => results[1] = results[2]

\* C9: a flat-format reader returns exactly the requested columns.
C9_RequestedColumnsOnly ==
    \A i \in Latest :
        IsFlat /\ Returned(i) => Range(TableOf(i).columns) = Range(references)

\* the reader each known source type belongs to
ReaderOfType(st) ==
    CASE st \in {CSV, TSV} -> "_read_csv"
      [] st \in EXCEL -> "_read_excel"
      [] st \in ODS -> "_read_ods"
      [] st = PARQUET -> "_read_parquet"
      [] st \in FEATHER -> "_read_feather"
      [] st = ORC -> "_read_orc"
      [] st = STATA -> "_read_stata"
      [] st \in SAS -> "_read_sas"
      [] st = SPSS -> "_read_spss"
      [] st = JSON -> "_read_json"
      [] st = XML -> "_read_xml"

\* C10: get_file_data invokes exactly one reader, the one of the source type,
\* and returns what it returns; for an unknown source type it raises
\* ValueError, invokes no reader and returns no table.
C10_Dispatch ==
    \A i \in Latest :
        LET st == mapping_rule.source_type
            o == results[i]
        IN IF st \in FlatTypes \cup {JSON, XML}
           THEN /\ o.invoked = <<ReaderOfType(st)>>
                /\ o.raised # "ValueError"
                /\ \E order \in missing_orders(mapping_rule, references) :
                     LET out == run_reader(ReaderOfType(st), mapping_rule, references, order)
                     IN o.raised = out.raised /\ o.table = out.table
           ELSE /\ o.invoked = <<>>
                /\ o.raised = "ValueError"
                /\ o.table = EmptyTable

C10_Witness ==
    /\ mapping_rule.source_type \in UnknownTypes
    /\ Len(results) >= 1
    /\ results[1].raised = "ValueError"

====
